---- MODULE Spec2Model ----
(***************************************************************************)
(* Model of src/prepare_env.py: the import scanner                         *)
(* (find_imports_to_install), the asynchronous package installer           *)
(* (install_imports) run as cooperatively scheduled coroutines, and the    *)
(* result serializer (robust_serialize).                                   *)
(***************************************************************************)
EXTENDS Integers, Sequences, FiniteSets, TLC

VARIABLES
    \* ---- install_imports: the process and its coroutines ----
    importable,       \* process-wide set of modules that import successfully
    pc,               \* per invocation: where the coroutine stands
    source,           \* per invocation: argument source_code_or_imports
    additional,       \* per invocation: argument additional_packages
    to_install,       \* per invocation: local list to_install
    idx,              \* per invocation: position of the for loop of line 83
    outcome,          \* per invocation: what the caller gets
    import_checks,    \* per invocation: modules handed to importlib.import_module
    installer_seen,   \* per invocation: what `import micropip` (line 77) found
    loader_calls,     \* per invocation: arguments of pyodide_js.loadPackage calls
    installer_calls,  \* per invocation: arguments of micropip.install calls
    completed,        \* per invocation: packages whose install returned
    failed,           \* per invocation: packages whose install raised
    inflight,         \* per invocation: host calls started and not yet finished
    \* ---- find_imports_to_install called on its own ----
    fi_imports, fi_importable, fi_table, fi_result,
    \* ---- robust_serialize called on its own ----
    rs_obj,           \* the object handed to robust_serialize
    rs_done,          \* robust_serialize has returned
    rs_out,           \* robust_serialize(rs_obj)
    rs_again          \* robust_serialize(rs_out)

varsInstall == <<importable, pc, source, additional, to_install, idx, outcome,
                 import_checks, installer_seen, loader_calls, installer_calls,
                 completed, failed, inflight>>
varsFind == <<fi_imports, fi_importable, fi_table, fi_result>>
varsSer == <<rs_obj, rs_done, rs_out, rs_again>>
vars == <<varsInstall, varsFind, varsSer>>

(***************************************************************************)
(* Bounds and universes                                                    *)
(***************************************************************************)
MaxImports == 2        \* longest list of imported module names, one invocation
MaxAdditional == 1     \* longest additional_packages list, one invocation
RaceMaxImports == 1    \* longest list of imported module names, two invocations
RaceMaxAdditional == 0 \* longest additional_packages list, two invocations
MaxFindImports == 3    \* longest list given to find_imports_to_install alone
MaxDepth == 2          \* deepest nesting of containers given to robust_serialize

Invocations == {1, 2}  \* install_imports coroutines of the process
Alone == {1}           \* the coroutine of a caller that never overlaps calls

Modules == {"foo", "yaml"}          \* module names user code imports
Installer == "micropip"             \* the installer module (lines 77-81)
AdditionalNames == {"foo", "yaml", "pyyaml"}

SeqsUpTo(S, n) == UNION {[1..k -> S] : k \in 0..n}

\* pyodide_js._module._import_name_to_package_name.to_py() of the running host
ImportNameToPackageName == [m \in {"yaml"} |-> "pyyaml"]

(***************************************************************************)
(* find_imports_to_install, lines 29-54                                    *)
(***************************************************************************)
\* dict.get(key, default), line 51
DictGet(d, key, default) == IF key \in DOMAIN d THEN d[key] ELSE default

\* importlib.import_module(module) returns, rather than raising
\* ModuleNotFoundError (lines 45-47)
import_module(module, env) == module \in env

InstallEntryPackageIsModule(module, table) == [module |-> module, package |-> module]

\* dict(module=module, package=to_package_name.get(module, module)), lines 49-52
InstallEntry(module, table) ==
    [module |-> module, package |-> DictGet(table, module, module)]

RECURSIVE FindLoop(_, _, _, _, _)
\* the for loop of lines 44-53, from position k with to_install = acc
FindLoop(imports, k, env, table, acc) ==
    IF k > Len(imports) THEN acc
    ELSE IF import_module(imports[k], env)
         THEN FindLoop(imports, k + 1, env, table, acc)
         ELSE FindLoop(imports, k + 1, env, table,
                       Append(acc, InstallEntry(imports[k], table)))

find_imports_to_install(imports, env, table) == FindLoop(imports, 1, env, table, <<>>)

(***************************************************************************)
(* Python objects, as robust_serialize tells them apart.  A str is the     *)
(* sequence of its characters, so that str(), repr() and isoformat() are   *)
(* computed and not assumed.                                               *)
(***************************************************************************)
PyNone == [t |-> "NoneType"]
PyStr(chars) == [t |-> "str", s |-> chars]
PyInt(n) == [t |-> "int", n |-> n]
PyBool(b) == [t |-> "bool", b |-> b]
\* the float whole + tenth/10, whole >= 0
PyFloat(whole, tenth) == [t |-> "float", whole |-> whole, tenth |-> tenth]
PyList(items) == [t |-> "list", items |-> items]
PyTuple(items) == [t |-> "tuple", items |-> items]
\* a dict is its items in insertion order
PyDict(entries) == [t |-> "dict", entries |-> entries]
\* a set is its elements in the order this object iterates them
PySet(order) == [t |-> "set", order |-> order]
PyFrozenSet(order) == [t |-> "frozenset", order |-> order]
PyDate(y, mo, d) == [t |-> "date", y |-> y, mo |-> mo, d |-> d]
PyDateTime(y, mo, d, h, mi, sec) ==
    [t |-> "datetime", y |-> y, mo |-> mo, d |-> d, h |-> h, mi |-> mi, sec |-> sec]
\* an instance of a class no case knows, with the text repr() gives for it
PyObject(text) == [t |-> "object", text |-> text]

DigitChar(d) == <<"0", "1", "2", "3", "4", "5", "6", "7", "8", "9">>[d + 1]

RECURSIVE NatDigits(_)
NatDigits(n) == IF n < 10 THEN <<DigitChar(n)>>
                ELSE Append(NatDigits(n \div 10), DigitChar(n % 10))

\* int.__str__
IntStr(n) == IF n < 0 THEN <<"-">> \o NatDigits(-n) ELSE NatDigits(n)

RECURSIVE ZeroPad(_, _)
\* "%0*d": digits padded with zeros on the left to the given width
ZeroPad(digits, width) ==
    IF Len(digits) >= width THEN digits ELSE ZeroPad(<<"0">> \o digits, width)

\* str(key) for the key types of the model
str(key) ==
    CASE key.t = "str" -> key.s
      [] key.t = "int" -> IntStr(key.n)
      [] key.t = "bool" -> IF key.b THEN <<"T", "r", "u", "e">>
                           ELSE <<"F", "a", "l", "s", "e">>
      [] key.t = "NoneType" -> <<"N", "o", "n", "e">>
      [] key.t = "float" -> NatDigits(key.whole) \o <<".">> \o <<DigitChar(key.tenth)>>

\* repr(key): as str(key), a str in quotes
repr(key) == IF key.t = "str" THEN <<"'">> \o key.s \o <<"'">> ELSE str(key)

\* date.isoformat() and datetime.isoformat() (no microseconds, no tzinfo)
isoformat(obj) ==
    LET day == ZeroPad(NatDigits(obj.y), 4) \o <<"-">> \o ZeroPad(NatDigits(obj.mo), 2)
               \o <<"-">> \o ZeroPad(NatDigits(obj.d), 2)
    IN IF obj.t = "datetime"
       THEN day \o <<"T">> \o ZeroPad(NatDigits(obj.h), 2) \o <<":">>
            \o ZeroPad(NatDigits(obj.mi), 2) \o <<":">> \o ZeroPad(NatDigits(obj.sec), 2)
       ELSE day

(***************************************************************************)
(* robust_serialize, lines 102-137                                         *)
(***************************************************************************)
\* isinstance(obj, (str, int, float, bool, type(None))), line 115
IsPrimitive(obj) == obj.t \in {"str", "int", "float", "bool", "NoneType"}

\* isinstance(obj, (list, tuple)), line 119
IsListOrTuple(obj) == obj.t \in {"list", "tuple"}

\* isinstance(obj, dict), line 123
IsDict(obj) == obj.t = "dict"

\* isinstance(obj, (set, frozenset)), line 128
IsSet(obj) == obj.t \in {"set", "frozenset"}

\* isinstance(obj, (datetime.date, datetime.datetime)), line 132
IsDate(obj) == obj.t \in {"date", "datetime"}

SerializeKeyRepr(key) == PyStr(repr(key))

\* str(key), line 125
SerializeKey(key) == PyStr(str(key))

\* d[key] = value of the dict comprehension of line 125: a key already
\* there keeps its place and takes the new value
DictSet(entries, key, value) ==
    IF \E j \in 1..Len(entries) : entries[j].key = key
    THEN [j \in 1..Len(entries) |->
             IF entries[j].key = key THEN [key |-> key, value |-> value]
             ELSE entries[j]]
    ELSE Append(entries, [key |-> key, value |-> value])

\* obj.isoformat(), line 133
SerializeDate(obj) == PyStr(isoformat(obj))

SerializeFallbackAsIs(obj) == obj

\* {"type": "not serializable", "repr": repr(obj)}, line 137
SerializeFallback(obj) ==
    PyDict(<<[key |-> PyStr(<<"t", "y", "p", "e">>),
              value |-> PyStr(<<"n", "o", "t", " ", "s", "e", "r", "i", "a", "l",
                                "i", "z", "a", "b", "l", "e">>)],
             [key |-> PyStr(<<"r", "e", "p", "r">>), value |-> PyStr(obj.text)]>>)

RECURSIVE robust_serialize(_)
RECURSIVE DictComprehension(_, _, _)

\* {str(key): robust_serialize(value) for key, value in obj.items()}, line
\* 125, from item k with the dict built so far
DictComprehension(entries, k, acc) ==
    IF k > Len(entries) THEN acc
    ELSE DictComprehension(entries, k + 1,
             DictSet(acc, SerializeKey(entries[k].key),
                     robust_serialize(entries[k].value)))

robust_serialize(obj) ==
    IF IsPrimitive(obj) THEN obj
    ELSE IF IsListOrTuple(obj)
    THEN PyList([k \in 1..Len(obj.items) |-> robust_serialize(obj.items[k])])
    ELSE IF IsDict(obj)
    THEN PyDict(DictComprehension(obj.entries, 1, <<>>))
    ELSE IF IsSet(obj)
    THEN PyList([k \in 1..Len(obj.order) |-> robust_serialize(obj.order[k])])
    ELSE IF IsDate(obj)
    THEN SerializeDate(obj)
    ELSE SerializeFallback(obj)

(***************************************************************************)
(* install_imports, lines 57-85                                            *)
(***************************************************************************)
\* what the caller of one invocation gets
Pending == [kind |-> "pending", entries |-> <<>>, error |-> "none"]
NoneResult == [kind |-> "None", entries |-> <<>>, error |-> "none"]
ListResult(lst) == [kind |-> "list", entries |-> lst, error |-> "none"]
Raised(what) == [kind |-> "raise", entries |-> <<>>, error |-> what]

\* argument source_code_or_imports: a str (known here by what the host's
\* find_imports makes of it) or a list of module names
Unset == [kind |-> "unset", parses |-> TRUE, imports |-> <<>>]
Sources(n) ==
    {[kind |-> "text", parses |-> FALSE, imports |-> <<>>]}
    \cup {[kind |-> k, parses |-> TRUE, imports |-> l] :
             k \in {"text", "list"}, l \in SeqsUpTo(Modules, n)}

\* isinstance(source_code_or_imports, str), line 61
IsStr(src) == src.kind = "text"

\* find_imports(source_code_or_imports) raises SyntaxError, lines 63-64
RaisesSyntaxError(src) == ~src.parses

SyntaxErrorReturnEmptyList == ListResult(<<>>)

\* the bare `return` of line 65
SyntaxErrorReturn == NoneResult

\* `package == entry` for a str and a dict: neither type knows the other, so
\* Python falls back to identity and the comparison is False (line 72)
StrEqualsEntry(package, entry) == FALSE

\* `package in to_install`, line 72
InList(package, lst) == \E k \in 1..Len(lst) : StrEqualsEntry(package, lst[k])

RECURSIVE MergeLoop(_, _, _)
\* the for loop of lines 71-73, from position k with to_install = acc
MergeLoop(packages, k, acc) ==
    IF k > Len(packages) THEN acc
    ELSE IF ~InList(packages[k], acc)
         THEN MergeLoop(packages, k + 1,
                        Append(acc, [module |-> packages[k], package |-> packages[k]]))
         ELSE MergeLoop(packages, k + 1, acc)

merge_additional(found, packages) == MergeLoop(packages, 1, found)

ListAlwaysTruthy(lst) == TRUE

\* `if to_install:`, line 75
ListTruthy(lst) == Len(lst) > 0

InstallerNeverImportable(env) == FALSE

\* `import micropip` succeeds, lines 76-78
installer_importable(env) == import_module(Installer, env)

EntryModule(entry) == entry.module

\* entry["package"], line 84
EntryPackage(entry) == entry.package

\* modules a package makes importable once micropip.install(package) returned
Provides(package) ==
    {m \in Modules : DictGet(ImportNameToPackageName, m, m) = package}

LoadCall == [call |-> "loadPackage", k |-> 0]
InstallCall(k) == [call |-> "install", k |-> k]

\* first position from k on whose module does not import in env
NextMissing(lst, k, env) ==
    LET open == {j \in k..(Len(lst) + 1) :
                    j = Len(lst) + 1 \/ ~import_module(lst[j].module, env)}
    IN CHOOSE j \in open : \A h \in open : j <= h

\* a loop that checks again, before each install, whether the module imports
EnterLoopRecheck(i, lst, k, pending) ==
    LET n == NextMissing(lst, k, importable)
    IN IF n <= Len(lst)
       THEN /\ pc' = [pc EXCEPT ![i] = "installing"]
            /\ idx' = [idx EXCEPT ![i] = n]
            /\ installer_calls' =
                   [installer_calls EXCEPT ![i] = Append(@, lst[n].package)]
            /\ inflight' = [inflight EXCEPT ![i] = pending \cup {[call |-> "install", k |-> n]}]
            /\ outcome' = outcome
       ELSE /\ pc' = [pc EXCEPT ![i] = "returned"]
            /\ idx' = [idx EXCEPT ![i] = n]
            /\ outcome' = [outcome EXCEPT ![i] = ListResult(lst)]
            /\ inflight' = [inflight EXCEPT ![i] = pending]
            /\ installer_calls' = installer_calls

\* the for loop of lines 83-85 reaching position k: either the call of
\* micropip.install(entry["package"]) and the suspension on it, or line 85
EnterLoop(i, lst, k, pending) ==
    IF k <= Len(lst)
    THEN /\ pc' = [pc EXCEPT ![i] = "installing"]
         /\ idx' = [idx EXCEPT ![i] = k]
         /\ installer_calls' =
                [installer_calls EXCEPT ![i] = Append(@, EntryPackage(lst[k]))]
         /\ inflight' = [inflight EXCEPT ![i] = pending \cup {InstallCall(k)}]
         /\ outcome' = outcome
    ELSE /\ pc' = [pc EXCEPT ![i] = "returned"]
         /\ idx' = [idx EXCEPT ![i] = k]
         /\ outcome' = [outcome EXCEPT ![i] = ListResult(lst)]
         /\ inflight' = [inflight EXCEPT ![i] = pending]
         /\ installer_calls' = installer_calls

InitInstall ==
    /\ importable \in SUBSET (Modules \cup {Installer})
    /\ pc = [i \in Invocations |-> "idle"]
    /\ source = [i \in Invocations |-> Unset]
    /\ additional = [i \in Invocations |-> <<>>]
    /\ to_install = [i \in Invocations |-> <<>>]
    /\ idx = [i \in Invocations |-> 0]
    /\ outcome = [i \in Invocations |-> Pending]
    /\ import_checks = [i \in Invocations |-> <<>>]
    /\ installer_seen = [i \in Invocations |-> "unchecked"]
    /\ loader_calls = [i \in Invocations |-> <<>>]
    /\ installer_calls = [i \in Invocations |-> <<>>]
    /\ completed = [i \in Invocations |-> <<>>]
    /\ failed = [i \in Invocations |-> <<>>]
    /\ inflight = [i \in Invocations |-> {}]

\* install_imports(src, packages) from its call to its first suspension or
\* its return, lines 61-85
Call(i, src, packages) ==
    /\ pc[i] = "idle"
    /\ UNCHANGED <<varsFind, varsSer>>
    /\ source' = [source EXCEPT ![i] = src]
    /\ additional' = [additional EXCEPT ![i] = packages]
    /\ UNCHANGED <<importable, completed, failed>>
    /\ IF IsStr(src) /\ RaisesSyntaxError(src)
       THEN /\ pc' = [pc EXCEPT ![i] = "returned"]
            /\ outcome' = [outcome EXCEPT ![i] = SyntaxErrorReturn]
            /\ UNCHANGED <<to_install, idx, import_checks, installer_seen,
                           loader_calls, installer_calls, inflight>>
       ELSE LET imports == src.imports
                merged == merge_additional(
                              find_imports_to_install(imports, importable,
                                                      ImportNameToPackageName),
                              packages)
            IN /\ import_checks' = [import_checks EXCEPT ![i] = imports]
               /\ to_install' = [to_install EXCEPT ![i] = merged]
               /\ IF ListTruthy(merged)
                  THEN /\ installer_seen' =
                              [installer_seen EXCEPT ![i] =
                                  IF Installer \in importable
                                  THEN "importable" ELSE "missing"]
                       /\ IF installer_importable(importable)
                          THEN /\ EnterLoop(i, merged, 1, {})
                               /\ UNCHANGED loader_calls
                          ELSE /\ pc' = [pc EXCEPT ![i] = "loading"]
                               /\ loader_calls' =
                                      [loader_calls EXCEPT ![i] = Append(@, Installer)]
                               /\ inflight' = [inflight EXCEPT ![i] = {LoadCall}]
                               /\ UNCHANGED <<idx, outcome, installer_calls>>
                  ELSE /\ pc' = [pc EXCEPT ![i] = "returned"]
                       /\ outcome' = [outcome EXCEPT ![i] = ListResult(merged)]
                       /\ UNCHANGED <<idx, installer_seen, loader_calls,
                                      installer_calls, inflight>>

\* the promise of pyodide_js.loadPackage("micropip") resolves, line 80
LoadPackageResolves(i) ==
    /\ pc[i] = "loading"
    /\ UNCHANGED <<varsFind, varsSer>>
    /\ importable' = importable \cup {Installer}
    /\ inflight' = [inflight EXCEPT ![i] = @ \ {LoadCall}]
    /\ pc' = [pc EXCEPT ![i] = "loaded"]
    /\ UNCHANGED <<source, additional, to_install, idx, outcome, import_checks,
                   installer_seen, loader_calls, installer_calls, completed, failed>>

\* the promise of pyodide_js.loadPackage("micropip") rejects and the
\* exception leaves install_imports, line 80
LoadPackageRejects(i) ==
    /\ pc[i] = "loading"
    /\ UNCHANGED <<varsFind, varsSer>>
    /\ inflight' = [inflight EXCEPT ![i] = @ \ {LoadCall}]
    /\ pc' = [pc EXCEPT ![i] = "raised"]
    /\ outcome' = [outcome EXCEPT ![i] = Raised("loadPackage")]
    /\ UNCHANGED <<importable, source, additional, to_install, idx, import_checks,
                   installer_seen, loader_calls, installer_calls, completed, failed>>

\* the coroutine resumes after line 80: `import micropip` (line 81), then
\* the loop of lines 83-85 up to its first suspension
ResumeAfterLoad(i) ==
    /\ pc[i] = "loaded"
    /\ UNCHANGED <<varsFind, varsSer>>
    /\ IF import_module(Installer, importable)
       THEN EnterLoop(i, to_install[i], 1, inflight[i])
       ELSE /\ pc' = [pc EXCEPT ![i] = "raised"]
            /\ outcome' = [outcome EXCEPT ![i] = Raised("ModuleNotFoundError")]
            /\ UNCHANGED <<idx, installer_calls, inflight>>
    /\ UNCHANGED <<importable, source, additional, to_install, import_checks,
                   installer_seen, loader_calls, completed, failed>>

\* micropip.install(entry["package"]) returns; the loop goes on to the next
\* entry or to line 85
InstallReturns(i) ==
    /\ pc[i] = "installing"
    /\ UNCHANGED <<varsFind, varsSer>>
    /\ LET package == EntryPackage(to_install[i][idx[i]])
       IN /\ importable' = importable \cup Provides(package)
          /\ completed' = [completed EXCEPT ![i] = Append(@, package)]
    /\ EnterLoop(i, to_install[i], idx[i] + 1, inflight[i] \ {InstallCall(idx[i])})
    /\ UNCHANGED <<source, additional, to_install, import_checks, installer_seen,
                   loader_calls, failed>>

\* a loop that swallows a failed install and goes on to the next entry
InstallRaisesContinue(i) ==
    /\ pc[i] = "installing"
    /\ UNCHANGED <<varsFind, varsSer>>
    /\ failed' = [failed EXCEPT ![i] = Append(@, EntryPackage(to_install[i][idx[i]]))]
    /\ EnterLoop(i, to_install[i], idx[i] + 1, inflight[i] \ {InstallCall(idx[i])})
    /\ UNCHANGED <<importable, source, additional, to_install, import_checks,
                   installer_seen, loader_calls, completed>>

\* micropip.install(entry["package"]) raises and the exception leaves
\* install_imports, line 84
InstallRaises(i) ==
    /\ pc[i] = "installing"
    /\ UNCHANGED <<varsFind, varsSer>>
    /\ pc' = [pc EXCEPT ![i] = "raised"]
    /\ outcome' = [outcome EXCEPT ![i] = Raised("install")]
    /\ failed' = [failed EXCEPT ![i] = Append(@, EntryPackage(to_install[i][idx[i]]))]
    /\ inflight' = [inflight EXCEPT ![i] = @ \ {InstallCall(idx[i])}]
    /\ UNCHANGED <<importable, source, additional, to_install, idx, import_checks,
                   installer_seen, loader_calls, installer_calls, completed>>

\* find_imports_to_install and robust_serialize are not running
NotCalled == [done |-> FALSE, list |-> <<>>]
IdleFind ==
    /\ fi_imports = <<>>
    /\ fi_importable = {}
    /\ fi_table = <<>>
    /\ fi_result = NotCalled
IdleSer ==
    /\ rs_obj = PyNone
    /\ rs_done = FALSE
    /\ rs_out = PyNone
    /\ rs_again = PyNone

Init == InitInstall /\ IdleFind /\ IdleSer

\* one step of coroutine i, its arguments within the given lengths
Step(i, maxImports, maxAdditional) ==
    \/ \E src \in Sources(maxImports),
          packages \in SeqsUpTo(AdditionalNames, maxAdditional) :
           Call(i, src, packages)
    \/ LoadPackageResolves(i)
    \/ LoadPackageRejects(i)
    \/ ResumeAfterLoad(i)
    \/ InstallReturns(i)
    \/ InstallRaises(i)

\* a caller that awaits install_imports before doing anything else
Next == \E i \in Alone : Step(i, MaxImports, MaxAdditional)

Spec == Init /\ [][Next]_vars

\* two install_imports coroutines on one event loop, switching at the awaits
NextRace == \E i \in Invocations : Step(i, RaceMaxImports, RaceMaxAdditional)

SpecRace == Init /\ [][NextRace]_vars


(***************************************************************************)
(* find_imports_to_install on its own: any list, any environment, any      *)
(* import-name-to-package-name table                                       *)
(***************************************************************************)
FindModules == {"foo", "yaml", "os"}
PackageNames == {"foo", "pyyaml"}
Tables == UNION {[D -> PackageNames] : D \in SUBSET FindModules}

\* no install_imports coroutine exists
IdleInstall ==
    /\ importable = {}
    /\ pc = [i \in Invocations |-> "idle"]
    /\ source = [i \in Invocations |-> Unset]
    /\ additional = [i \in Invocations |-> <<>>]
    /\ to_install = [i \in Invocations |-> <<>>]
    /\ idx = [i \in Invocations |-> 0]
    /\ outcome = [i \in Invocations |-> Pending]
    /\ import_checks = [i \in Invocations |-> <<>>]
    /\ installer_seen = [i \in Invocations |-> "unchecked"]
    /\ loader_calls = [i \in Invocations |-> <<>>]
    /\ installer_calls = [i \in Invocations |-> <<>>]
    /\ completed = [i \in Invocations |-> <<>>]
    /\ failed = [i \in Invocations |-> <<>>]
    /\ inflight = [i \in Invocations |-> {}]

InitFind ==
    /\ IdleInstall
    /\ IdleSer
    /\ fi_imports \in SeqsUpTo(FindModules, MaxFindImports)
    /\ fi_importable \in SUBSET FindModules
    /\ fi_table \in Tables
    /\ fi_result = NotCalled

\* the call find_imports_to_install(imports), lines 29-54
FindCall ==
    /\ ~fi_result.done
    /\ fi_result' = [done |-> TRUE,
                     list |-> find_imports_to_install(fi_imports, fi_importable,
                                                      fi_table)]
    /\ UNCHANGED <<fi_imports, fi_importable, fi_table, varsInstall, varsSer>>

NextFind == FindCall

SpecFind == InitFind /\ [][NextFind]_vars

\* C1: find_imports_to_install returns, in input order, one entry for each
\* listed module that does not import and none for a module that imports;
\* the entry's package is the table's value for the module when the table
\* has the module and the module name itself otherwise.
C1_FindImportsToInstall ==
    fi_result.done =>
        LET Missing(m) == m \notin fi_importable
            missing == SelectSeq(fi_imports, Missing)
            r == fi_result.list
        IN /\ Len(r) = Len(missing)
           /\ \A k \in 1..Len(r) :
                  /\ r[k].module = missing[k]
                  /\ r[k].package = IF missing[k] \in DOMAIN fi_table
                                    THEN fi_table[missing[k]]
                                    ELSE missing[k]
                  /\ DOMAIN r[k] = {"module", "package"}

C1_Witness ==
    /\ fi_result.done
    /\ Len(fi_result.list) = 2
    /\ Len(fi_imports) = 3
    /\ fi_imports[2] \in fi_importable
    /\ fi_result.list[1].package # fi_result.list[1].module
    /\ fi_result.list[2].package = fi_result.list[2].module
    /\ fi_result.list[2].module \notin DOMAIN fi_table

(***************************************************************************)
(* robust_serialize on its own: an object is built from a leaf by wrapping *)
(* it in containers, then serialized, and the result serialized again      *)
(***************************************************************************)
Leaves ==
    {PyStr(<<"a">>), PyStr(<<"1">>), PyInt(1), PyInt(-12), PyFloat(1, 5),
     PyBool(TRUE), PyNone, PyDate(2024, 1, 1), PyDateTime(987, 12, 31, 9, 30, 0),
     PyObject(<<"<", "F", "o", "o", ">">>)}
\* what is put next to the object in a two-element container
Companion == PyInt(1)
Keys == {PyStr(<<"a">>), PyStr(<<"1">>), PyInt(1), PyBool(TRUE), PyNone}
\* keys that str() can bring together
NearKeys == {PyStr(<<"1">>), PyInt(1), PyBool(TRUE)}

IsNumber(v) == v.t \in {"int", "bool", "float"}
\* a number in tenths
Num(v) == CASE v.t = "int" -> 10 * v.n
            [] v.t = "bool" -> IF v.b THEN 10 ELSE 0
            [] v.t = "float" -> 10 * v.whole + v.tenth
\* a == b, one of the two being a leaf: numbers by value (1 == True == 1.0)
PyEq(a, b) == IF IsNumber(a) /\ IsNumber(b) THEN Num(a) = Num(b) ELSE a = b

SetMax(S) == CHOOSE x \in S : \A y \in S : y <= x

RECURSIVE Children(_)
Children(v) ==
    IF v.t \in {"list", "tuple"} THEN {v.items[k] : k \in 1..Len(v.items)}
    ELSE IF v.t \in {"set", "frozenset"} THEN {v.order[k] : k \in 1..Len(v.order)}
    ELSE IF v.t = "dict" THEN {v.entries[k].value : k \in 1..Len(v.entries)}
    ELSE {}

IsContainer(v) == v.t \in {"list", "tuple", "set", "frozenset", "dict"}

RECURSIVE Depth(_)
Depth(v) == IF ~IsContainer(v) THEN 0
            ELSE 1 + SetMax({0} \cup {Depth(c) : c \in Children(v)})

RECURSIVE Hashable(_)
\* hash(v) does not raise: what a set may hold
Hashable(v) ==
    /\ v.t \notin {"list", "set", "dict"}
    /\ \A c \in Children(v) : Hashable(c)

Arrangements(o) == {<<o>>, <<o, Companion>>, <<Companion, o>>}

InitSer ==
    /\ IdleInstall
    /\ IdleFind
    /\ rs_obj \in Leaves
    /\ rs_done = FALSE
    /\ rs_out = PyNone
    /\ rs_again = PyNone

CanWrap == ~rs_done /\ Depth(rs_obj) < MaxDepth

WrapList ==
    /\ CanWrap
    /\ \E items \in Arrangements(rs_obj) : rs_obj' = PyList(items)
    /\ UNCHANGED <<rs_done, rs_out, rs_again, varsInstall, varsFind>>

WrapTuple ==
    /\ CanWrap
    /\ \E items \in Arrangements(rs_obj) : rs_obj' = PyTuple(items)
    /\ UNCHANGED <<rs_done, rs_out, rs_again, varsInstall, varsFind>>

WrapSet ==
    /\ CanWrap
    /\ Hashable(rs_obj)
    /\ \/ \E order \in Arrangements(rs_obj) :
              /\ Len(order) = 2 => ~PyEq(rs_obj, Companion)
              /\ rs_obj' = PySet(order)
       \/ rs_obj' = PyFrozenSet(<<rs_obj>>)
    /\ UNCHANGED <<rs_done, rs_out, rs_again, varsInstall, varsFind>>

WrapDict ==
    /\ CanWrap
    /\ \/ \E k \in Keys : rs_obj' = PyDict(<<[key |-> k, value |-> rs_obj]>>)
       \/ \E k1, k2 \in NearKeys :
              /\ ~PyEq(k1, k2)
              /\ rs_obj' = PyDict(<<[key |-> k1, value |-> Companion],
                                    [key |-> k2, value |-> rs_obj]>>)
    /\ UNCHANGED <<rs_done, rs_out, rs_again, varsInstall, varsFind>>

\* out = robust_serialize(obj); again = robust_serialize(out)
Serialize ==
    /\ ~rs_done
    /\ rs_done' = TRUE
    /\ rs_out' = robust_serialize(rs_obj)
    /\ rs_again' = robust_serialize(robust_serialize(rs_obj))
    /\ UNCHANGED <<rs_obj, varsInstall, varsFind>>

NextSer == WrapList \/ WrapTuple \/ WrapSet \/ WrapDict \/ Serialize

SpecSer == InitSer /\ [][NextSer]_vars

RECURSIVE IsJson(_)
\* a value json.dump writes: a primitive, a list of such values, or a dict
\* of such values under distinct str keys
IsJson(v) ==
    \/ v.t \in {"str", "int", "float", "bool", "NoneType"}
    \/ /\ v.t = "list"
       /\ \A k \in 1..Len(v.items) : IsJson(v.items[k])
    \/ /\ v.t = "dict"
       /\ \A k \in 1..Len(v.entries) :
              /\ v.entries[k].key.t = "str"
              /\ IsJson(v.entries[k].value)
       /\ \A j, k \in 1..Len(v.entries) :
              v.entries[j].key = v.entries[k].key => j = k

\* the dict of the fallback case
NotSerializable(text) ==
    PyDict(<<[key |-> PyStr(<<"t", "y", "p", "e">>),
              value |-> PyStr(<<"n", "o", "t", " ", "s", "e", "r", "i", "a", "l",
                                "i", "z", "a", "b", "l", "e">>)],
             [key |-> PyStr(<<"r", "e", "p", "r">>), value |-> PyStr(text)]>>)

\* C7: serializing the result of robust_serialize again gives the same
\* value.
C7_Idempotent == rs_done => rs_again = rs_out

C7_Witness ==
    /\ rs_done
    /\ rs_obj.t = "dict"
    /\ Len(rs_obj.entries) = 2
    /\ Len(rs_out.entries) = 1
    /\ rs_out # rs_obj

\* C8: robust_serialize returns for every object, and what it returns is
\* built of primitives, lists and str-keyed dicts only; an object of no known
\* case becomes the dict {"type": "not serializable", "repr": repr(obj)},
\* at the top as inside a list or tuple.
C8_TotalAndJsonCompatible ==
    rs_done =>
        /\ IsJson(rs_out)
        /\ rs_obj.t = "object" => rs_out = NotSerializable(rs_obj.text)
        /\ (rs_obj.t \in {"list", "tuple"} /\ rs_obj.items[1].t = "object") =>
               rs_out.items[1] = NotSerializable(rs_obj.items[1].text)

C8_Witness ==
    /\ rs_done
    /\ rs_obj.t = "object"
    /\ rs_out.t = "dict"

(***************************************************************************)
(* Properties of install_imports                                           *)
(***************************************************************************)
Started(i) == pc[i] # "idle"
SyntaxErrorGiven(src) == src.kind = "text" /\ ~src.parses
Packages(lst) == [k \in 1..Len(lst) |-> lst[k].package]
Range(seq) == {seq[k] : k \in 1..Len(seq)}

\* C2: an invocation given source text on which find_imports raises
\* SyntaxError has returned None (no list at all) and has made no import
\* check, no loadPackage call and no micropip.install call, whatever
\* additional_packages holds.
C2_SyntaxErrorReturnsNone ==
    \A i \in Invocations :
        (Started(i) /\ SyntaxErrorGiven(source[i])) =>
            /\ pc[i] = "returned"
            /\ outcome[i] = NoneResult
            /\ import_checks[i] = <<>>
            /\ installer_seen[i] = "unchecked"
            /\ loader_calls[i] = <<>>
            /\ installer_calls[i] = <<>>
            /\ inflight[i] = {}

C2_Witness ==
    \E i \in Invocations :
        /\ SyntaxErrorGiven(source[i])
        /\ pc[i] = "returned"
        /\ additional[i] # <<>>
        /\ ~(Modules \subseteq importable)

RECURSIVE MergeByModule(_, _, _)
\* the merge as the claim C3 describes it: a name is skipped when an entry
\* of the list already has it as its module field
MergeByModule(packages, k, acc) ==
    IF k > Len(packages) THEN acc
    ELSE IF \E j \in 1..Len(acc) : acc[j].module = packages[k]
         THEN MergeByModule(packages, k + 1, acc)
         ELSE MergeByModule(packages, k + 1,
                            Append(acc, [module |-> packages[k], package |-> packages[k]]))

\* C3: the to-install list an invocation builds is the list of missing
\* imports followed by each additional name that is not yet the module field
\* of an entry, so a name that is both a missing import and an additional
\* package appears once.
C3_AdditionalMergedByModule ==
    [][\A i \in Invocations :
          (pc[i] = "idle" /\ pc'[i] # "idle" /\ ~SyntaxErrorGiven(source'[i])) =>
              to_install'[i] =
                  MergeByModule(additional'[i], 1,
                      find_imports_to_install(source'[i].imports, importable,
                                              ImportNameToPackageName))]_vars

\* C4: when an invocation has returned a list, the micropip.install calls it
\* made are exactly the package fields of that list, in order, one per
\* entry; and at every moment at most one host call of the invocation is in
\* flight, the next install starting only after the previous one returned.
C4_InstallsSequentialInListOrder ==
    \A i \in Invocations :
        /\ Cardinality(inflight[i]) <= 1
        /\ Len(installer_calls[i]) <= Len(completed[i]) + Len(failed[i]) + 1
        /\ Len(installer_calls[i]) =
               Len(completed[i]) + Len(failed[i])
               + Cardinality({c \in inflight[i] : c.call = "install"})
        /\ (pc[i] = "returned" /\ outcome[i].kind = "list") =>
               /\ installer_calls[i] = Packages(outcome[i].entries)
               /\ completed[i] = Packages(outcome[i].entries)
               /\ inflight[i] = {}

C4_Witness ==
    \E i \in Invocations :
        /\ pc[i] = "returned"
        /\ outcome[i].kind = "list"
        /\ Len(outcome[i].entries) >= 2
        /\ \E k \in 1..Len(outcome[i].entries) :
               outcome[i].entries[k].package # outcome[i].entries[k].module
        /\ installer_calls[i] = Packages(outcome[i].entries)

\* C5: with a non-empty to-install list, an invocation that found micropip
\* not importable has called loadPackage("micropip") exactly once, and that
\* call has finished before its first micropip.install call; an invocation
\* that found micropip importable has never called loadPackage.
C5_BootstrapOnceBeforeInstalls ==
    \A i \in Invocations :
        /\ (Started(i) /\ to_install[i] # <<>>) => installer_seen[i] # "unchecked"
        /\ installer_seen[i] = "missing" =>
               /\ loader_calls[i] = <<Installer>>
               /\ installer_calls[i] # <<>> =>
                      (LoadCall \notin inflight[i] /\ Installer \in importable)
        /\ installer_seen[i] = "importable" => loader_calls[i] = <<>>

C5_Witness ==
    \E i \in Invocations :
        /\ installer_seen[i] = "missing"
        /\ loader_calls[i] = <<Installer>>
        /\ installer_calls[i] # <<>>

\* C6: once the install of the k-th entry has raised, the invocation has
\* ended with that exception and no list; the installer was called for
\* entries 1..k once each and for no later entry, and what entries 1..k-1
\* installed is still importable.
C6_FirstFailureEndsTheLoop ==
    \A i \in Invocations :
        failed[i] # <<>> =>
            LET k == idx[i]
            IN /\ pc[i] = "raised"
               /\ outcome[i] = Raised("install")
               /\ k \in 1..Len(to_install[i])
               /\ failed[i] = <<to_install[i][k].package>>
               /\ installer_calls[i] = Packages(SubSeq(to_install[i], 1, k))
               /\ completed[i] = Packages(SubSeq(to_install[i], 1, k - 1))
               /\ \A j \in 1..(k - 1) :
                      Provides(to_install[i][j].package) \subseteq importable
               /\ inflight[i] = {}

C6_Witness ==
    \E i \in Invocations :
        /\ failed[i] # <<>>
        /\ idx[i] = 2
        /\ Len(to_install[i]) = 3
        /\ Provides(to_install[i][1].package) # {}

\* C10: a call whose imported modules all import and whose
\* additional_packages is empty returns the empty list at once: no
\* loadPackage call, no micropip.install call, the importable set as it
\* was, with micropip importable or not.
C10_NothingToInstallDoesNothing ==
    [][\A i \in Invocations :
          (/\ pc[i] = "idle" /\ pc'[i] # "idle"
           /\ ~SyntaxErrorGiven(source'[i])
           /\ Range(source'[i].imports) \subseteq importable
           /\ additional'[i] = <<>>) =>
              /\ pc'[i] = "returned"
              /\ outcome'[i] = ListResult(<<>>)
              /\ loader_calls'[i] = <<>>
              /\ installer_calls'[i] = <<>>
              /\ inflight'[i] = {}
              /\ importable' = importable]_vars

C10_Witness ==
    \E i \in Invocations :
        /\ pc[i] = "returned"
        /\ outcome[i] = ListResult(<<>>)
        /\ source[i].imports # <<>>
        /\ Range(source[i].imports) \subseteq importable
        /\ additional[i] = <<>>
        /\ Installer \notin importable

\* C9: two invocations that both found a module missing both call the
\* installer for its package: each has made all its import checks before its
\* first install and never checks again, so when both have returned their
\* lists, every package the two lists share was asked of the installer by
\* each of them.
C9_BothInstallSharedPackage ==
    /\ \A i \in Invocations :
           installer_calls[i] # <<>> => import_checks[i] = source[i].imports
    /\ \A i, j \in Invocations :
           (/\ i # j
            /\ pc[i] = "returned" /\ outcome[i].kind = "list"
            /\ pc[j] = "returned" /\ outcome[j].kind = "list") =>
               \A p \in Range(Packages(to_install[i])) \cap Range(Packages(to_install[j])) :
                   p \in Range(installer_calls[i]) /\ p \in Range(installer_calls[j])

C9_Witness ==
    \E i, j \in Invocations : \E m \in Modules :
        /\ i # j
        /\ m \in Range(source[i].imports) /\ m \in Range(source[j].imports)
        /\ \E p \in Range(installer_calls[i]) \cap Range(installer_calls[j]) :
               m \in Provides(p)

====
